---- MODULE Spec2Model ----
(***************************************************************************)
(* A model of eventsourcing/infrastructure/transcoding.py: the JSON        *)
(* encoder and decoder hooks, the JSONTranscoder and the id prefix         *)
(* helpers.                                                                *)
(*                                                                         *)
(* Python values are tuples whose first element names the kind:            *)
(*   <<"int", n>>  <<"str", pieces>>  <<"bool", b>>  <<"none">>            *)
(*   <<"list", seq>>  <<"dict", items>>                                    *)
(*   <<"datetime", date, time, micros, offset>>  <<"date", date>>          *)
(*   <<"ndarray", ndim, dtype, data>>  <<"object", class, items>>          *)
(* A str is the sequence of its pieces, so that formatting is              *)
(* concatenation and parsing is taking the pieces apart.  A dict is the    *)
(* sequence of its <<key, value>> items in insertion order.  JSON text is  *)
(* a tree of tokens in the order they are written.  A raised exception is  *)
(* <<"raise", kind>>.                                                      *)
(***************************************************************************)
EXTENDS Integers, Sequences, FiniteSets, TLC

Range(s) == {s[i] : i \in DOMAIN s}

Str(s) == <<"str", <<s>>>>

None == <<"none">>

Raise(kind) == <<"raise", kind>>

IsRaise(v) == v[1] = "raise"

(***************************************************************************)
(* dict, in insertion order.                                               *)
(***************************************************************************)
DictKeys(items) == {items[i][1] : i \in DOMAIN items}

DictGet(items, k) == (CHOOSE p \in Range(items) : p[1] = k)[2]

DictPop(items, k) == SelectSeq(items, LAMBDA p : p[1] # k)

DictSet(items, k, v) ==
    IF k \in DictKeys(items)
    THEN [i \in DOMAIN items |-> IF items[i][1] = k THEN <<k, v>> ELSE items[i]]
    ELSE Append(items, <<k, v>>)

RECURSIVE DictFromPairs(_)
\* The dict a sequence of pairs builds: a repeated key keeps its first place
\* and its last value.
DictFromPairs(pairs) ==
    IF pairs = <<>> THEN <<>>
    ELSE LET n == Len(pairs)
         IN  DictSet(DictFromPairs(SubSeq(pairs, 1, n - 1)), pairs[n][1], pairs[n][2])

(***************************************************************************)
(* The ascending order of the attribute names (code points: upper case,    *)
(* then underscore, then lower case).                                      *)
(***************************************************************************)
KeyOrder ==
    << "ISO8601_date", "ISO8601_datetime", "__class__", "__module__",
       "__ndarray__", "a", "b", "domain_event_id", "entity_id", "n", "x" >>

Rank(k) == CHOOSE i \in DOMAIN KeyOrder : KeyOrder[i] = k

SortedItems(items) ==
    [i \in DOMAIN items |->
        CHOOSE p \in Range(items) :
            Cardinality({q \in Range(items) : Rank(q[1]) < Rank(p[1])}) = i - 1]

(***************************************************************************)
(* The classes a payload can name: the module that defines each, its       *)
(* qualified name outermost first, whether it is a DomainEvent or an       *)
(* EventSourcedEntity, its always_encrypt flag, and what its constructor   *)
(* takes ("any": keyword arguments stored as attributes; "none": no        *)
(* argument; "x": exactly the required argument x).                        *)
(***************************************************************************)
Class(module, qualname, kind, enc, init) ==
    [module |-> module, qualname |-> qualname, kind |-> kind,
     always_encrypt |-> enc, init |-> init]

Classes ==
    [ ExampleCreated |-> Class("mod", <<"Example", "Created">>, "event", FALSE, "none"),
      SecretCreated  |-> Class("mod", <<"Secret", "Created">>, "event", TRUE, "none"),
      Example        |-> Class("mod", <<"Example">>, "entity", FALSE, "none"),
      Bag            |-> Class("mod", <<"Bag">>, "value", FALSE, "any"),
      Strict         |-> Class("mod", <<"Strict">>, "value", FALSE, "none"),
      Needy          |-> Class("mod", <<"Needy">>, "value", FALSE, "x"),
      ndarray        |-> Class("numpy", <<"ndarray">>, "value", FALSE, "x") ]

ClassNames == DOMAIN Classes

RECURSIVE Join(_)
\* ".".join(path), as pieces.
Join(path) ==
    IF Len(path) <= 1 THEN path
    ELSE <<path[1], ".">> \o Join(Tail(path))

RECURSIVE Split(_)
\* pieces.split("."): the segments between the dots.
Split(pieces) ==
    IF pieces = <<>> THEN <<>>
    ELSE IF Len(pieces) >= 2 /\ pieces[2] = "."
         THEN <<pieces[1]>> \o Split(SubSeq(pieces, 3, Len(pieces)))
         ELSE <<pieces[1]>>

\* cls.__qualname__ and cls.__name__ of a class, as the pieces of the str.
qualname(cls) == Join(cls.qualname)

name(cls) == <<cls.qualname[Len(cls.qualname)]>>

\* obj.__class__.__qualname__ and obj.__module__ as str values.
QualnameStr(c) == <<"str", qualname(Classes[c])>>

ModuleStr(c) == Str(Classes[c].module)

\* type(obj) for the values that reach the encoder's fallback.
ClassOf(obj) == IF obj[1] = "object" THEN obj[2] ELSE "ndarray"

(***************************************************************************)
(* ObjectJSONEncoder                                                       *)
(***************************************************************************)
\* obj.strftime('%Y-%m-%dT%H:%M:%S.%f%z'): %z is empty for a naive datetime.
strftime(obj) ==
    <<obj[2], "T", obj[3], ".", obj[4]>> \o (IF obj[5] = "" THEN <<>> ELSE <<obj[5]>>)

\* date.isoformat()
isoformat(obj) == <<obj[2]>>

\* numpy.save into a BytesIO, read back and decoded as latin-1.
numpy_save(obj) == <<"NUMPY", obj[3]>> \o obj[4]

\* json.dumps of a str: the text between quotes.
dumps_str(pieces) == <<"\"">> \o pieces \o <<"\"">>

\* ObjectJSONEncoder.default: reached only for what the base encoder cannot
\* represent, whose default always raises "not JSON serializable".  An
\* ndarray exists only where numpy is installed.
default(obj) ==
    IF obj[1] = "datetime"
    THEN <<"dict", << <<"ISO8601_datetime", <<"str", strftime(obj)>> >> >> >>
    ELSE IF obj[1] \in {"date", "datetime"}
    THEN <<"dict", << <<"ISO8601_date", <<"str", isoformat(obj)>> >> >> >>
    ELSE IF obj[1] = "ndarray" /\ obj[2] = 1
    THEN <<"dict", << <<"__ndarray__", <<"str", dumps_str(numpy_save(obj))>> >> >> >>
    ELSE <<"dict", << <<"__class__", QualnameStr(ClassOf(obj))>>,
                      <<"__module__", ModuleStr(ClassOf(obj))>> >> >>

\* Variant of EmitOrder: json.dumps without sort_keys writes the items in
\* insertion order.
EmitOrderUnsorted(items) == items

\* The order in which json.dumps writes the items of a dict (sort_keys=True).
EmitOrder(items) == SortedItems(items)

RECURSIVE dumps(_)
\* json.dumps(v, separators=(',', ':'), sort_keys=True, cls=ObjectJSONEncoder):
\* the tokens written, in order.
dumps(v) ==
    CASE v[1] = "int"  -> <<"number", v[2]>>
      [] v[1] = "str"  -> <<"string", v[2]>>
      [] v[1] = "bool" -> <<"literal", v[2]>>
      [] v[1] = "none" -> <<"null">>
      [] v[1] = "list" -> <<"array", [i \in DOMAIN v[2] |-> dumps(v[2][i])]>>
      [] v[1] = "dict" ->
            LET items == EmitOrder(v[2])
            IN  <<"object", [i \in DOMAIN items |-> <<items[i][1], dumps(items[i][2])>>]>>
      [] OTHER -> dumps(default(v))

(***************************************************************************)
(* ObjectJSONDecoder                                                       *)
(***************************************************************************)
\* Whether Python can evaluate `key in d` at all.
SupportsIn(d) == d[1] \in {"dict", "str", "list"}

\* `key in d`: a key of a dict, a substring of a str, an element of a list.
In(key, d) ==
    CASE d[1] = "dict" -> key \in DictKeys(d[2])
      [] d[1] = "str"  -> \E i \in DOMAIN d[2] : d[2][i] = key
      [] d[1] = "list" -> \E i \in DOMAIN d[2] : d[2][i] = Str(key)

\* json.loads of the text of one str.
loads_str(pieces) ==
    IF Len(pieces) >= 2 /\ pieces[1] = "\"" /\ pieces[Len(pieces)] = "\""
    THEN <<"str", SubSeq(pieces, 2, Len(pieces) - 1)>>
    ELSE Raise("JSONDecodeError")

\* numpy.load of the bytes numpy.save wrote.
numpy_load(pieces) ==
    IF Len(pieces) >= 2 /\ pieces[1] = "NUMPY"
    THEN <<"ndarray", 1, pieces[2], SubSeq(pieces, 3, Len(pieces))>>
    ELSE Raise("ValueError")

_decode_ndarray(d) ==
    IF d[1] # "dict" \/ DictGet(d[2], "__ndarray__")[1] # "str"
    THEN Raise("TypeError")
    ELSE LET text == loads_str(DictGet(d[2], "__ndarray__")[2])
         IN  IF IsRaise(text) THEN text ELSE numpy_load(text[2])

\* dateutil.parser.parse of the text strftime wrote.
_decode_datetime(d) ==
    IF d[1] # "dict" \/ DictGet(d[2], "ISO8601_datetime")[1] # "str"
    THEN Raise("TypeError")
    ELSE LET p == DictGet(d[2], "ISO8601_datetime")[2]
         IN  IF Len(p) \in {5, 6} /\ p[2] = "T" /\ p[4] = "."
             THEN <<"datetime", p[1], p[3], p[5], IF Len(p) = 6 THEN p[6] ELSE "">>
             ELSE Raise("ValueError")

\* datetime.datetime.strptime(s, '%Y-%m-%d').date()
_decode_date(d) ==
    IF d[1] # "dict" \/ DictGet(d[2], "ISO8601_date")[1] # "str"
    THEN Raise("TypeError")
    ELSE LET p == DictGet(d[2], "ISO8601_date")[2]
         IN  IF Len(p) = 1 THEN <<"date", p[1]>> ELSE Raise("ValueError")

\* importlib.import_module(module_name) and resolve_attr(module, class_name):
\* the class, or the exception raised.
resolve_class(module_name, class_name) ==
    IF module_name[1] # "str" \/ class_name[1] # "str" THEN Raise("TypeError")
    ELSE IF \A c \in ClassNames : ModuleStr(c) # module_name THEN Raise("ImportError")
    ELSE IF \E c \in ClassNames : ModuleStr(c) = module_name /\ QualnameStr(c) = class_name
    THEN <<"class", CHOOSE c \in ClassNames :
                        ModuleStr(c) = module_name /\ QualnameStr(c) = class_name>>
    ELSE Raise("AttributeError")

\* cls(**kwargs)
construct(c, kwargs) ==
    CASE Classes[c].init = "any"  -> <<"object", c, kwargs>>
      [] Classes[c].init = "none" ->
            IF kwargs = <<>> THEN <<"object", c, <<>> >> ELSE Raise("TypeError")
      [] Classes[c].init = "x"    ->
            IF DictKeys(kwargs) = {"x"} THEN <<"object", c, kwargs>> ELSE Raise("TypeError")

RECURSIVE from_jsonable(_)
RECURSIVE _decode_class(_)
RECURSIVE assign_attrs(_, _)

\* for attr, value in d.items(): obj.__dict__[attr] = from_jsonable(value)
assign_attrs(obj, items) ==
    IF items = <<>> THEN obj
    ELSE LET value == from_jsonable(items[1][2])
         IN  IF IsRaise(value) THEN value
             ELSE assign_attrs(<<"object", obj[2], DictSet(obj[3], items[1][1], value)>>,
                               Tail(items))

_decode_class(d) ==
    IF d[1] # "dict" THEN Raise("AttributeError")
    ELSE IF ~({"__class__", "__module__"} \subseteq DictKeys(d[2])) THEN Raise("KeyError")
    ELSE LET rest == DictPop(DictPop(d[2], "__class__"), "__module__")
             cls  == resolve_class(DictGet(d[2], "__module__"), DictGet(d[2], "__class__"))
         IN  IF IsRaise(cls) THEN cls
             ELSE LET obj == construct(cls[2], rest)
                  IN  IF ~IsRaise(obj) THEN obj
                      ELSE LET bare == construct(cls[2], <<>>)
                           IN  IF IsRaise(bare) THEN bare
                               ELSE assign_attrs(bare, rest)

\* Variant of marker: __class__ or __module__ alone taken for the class
\* marker.
marker_either(d) ==
    IF In("__ndarray__", d) THEN "__ndarray__"
    ELSE IF In("__class__", d) \/ In("__module__", d) THEN "__class__"
    ELSE IF In("ISO8601_datetime", d) THEN "ISO8601_datetime"
    ELSE IF In("ISO8601_date", d) THEN "ISO8601_date"
    ELSE "none"

\* The marker that decides: the first of the tests that matches.
marker(d) ==
    IF In("__ndarray__", d) THEN "__ndarray__"
    ELSE IF In("__class__", d) /\ In("__module__", d) THEN "__class__"
    ELSE IF In("ISO8601_datetime", d) THEN "ISO8601_datetime"
    ELSE IF In("ISO8601_date", d) THEN "ISO8601_date"
    ELSE "none"

from_jsonable(d) ==
    IF ~SupportsIn(d) THEN Raise("TypeError")
    ELSE CASE marker(d) = "__ndarray__"      -> _decode_ndarray(d)
           [] marker(d) = "__class__"        -> _decode_class(d)
           [] marker(d) = "ISO8601_datetime" -> _decode_datetime(d)
           [] marker(d) = "ISO8601_date"     -> _decode_date(d)
           [] OTHER                          -> d

RECURSIVE loads(_)
RECURSIVE loads_items(_)
RECURSIVE loads_elems(_)

\* The items of a JSON object, decoded left to right: the pairs, or the first
\* exception.
loads_items(pairs) ==
    IF pairs = <<>> THEN <<"pairs", <<>> >>
    ELSE LET v == loads(pairs[1][2])
         IN  IF IsRaise(v) THEN v
             ELSE LET rest == loads_items(Tail(pairs))
                  IN  IF IsRaise(rest) THEN rest
                      ELSE <<"pairs", << <<pairs[1][1], v>> >> \o rest[2]>>

loads_elems(elems) ==
    IF elems = <<>> THEN <<"list", <<>> >>
    ELSE LET v == loads(elems[1])
         IN  IF IsRaise(v) THEN v
             ELSE LET rest == loads_elems(Tail(elems))
                  IN  IF IsRaise(rest) THEN rest
                      ELSE <<"list", <<v>> \o rest[2]>>

\* json.loads(text, cls=ObjectJSONDecoder): every decoded mapping, innermost
\* first, goes through from_jsonable.
loads(text) ==
    CASE text[1] = "number"  -> <<"int", text[2]>>
      [] text[1] = "string"  -> <<"str", text[2]>>
      [] text[1] = "literal" -> <<"bool", text[2]>>
      [] text[1] = "null"    -> None
      [] text[1] = "array"   -> loads_elems(text[2])
      [] text[1] = "object"  ->
            LET items == loads_items(text[2])
            IN  IF IsRaise(items) THEN items
                ELSE from_jsonable(<<"dict", DictFromPairs(items[2])>>)
      [] OTHER               -> Raise("JSONDecodeError")

(***************************************************************************)
(* Collaborators: the topic resolver of eventsourcing.domain.model.events  *)
(* and the cipher.                                                         *)
(***************************************************************************)
\* topic_from_domain_class: "<module>#<qualname>".
topic_from_domain_class(c) == <<"str", <<Classes[c].module, "#">> \o qualname(Classes[c])>>

\* resolve_domain_topic: the class of a topic, or the resolver's exception.
resolve_domain_topic(topic) ==
    IF \E c \in ClassNames : topic_from_domain_class(c) = topic
    THEN <<"class", CHOOSE c \in ClassNames : topic_from_domain_class(c) = topic>>
    ELSE Raise("TopicResolutionError")

encrypt(plaintext) == <<"ciphertext", plaintext>>

decrypt(ciphertext) ==
    IF ciphertext[1] = "ciphertext" THEN ciphertext[2] ELSE Raise("DecryptionError")

(***************************************************************************)
(* Stored entity ids                                                       *)
(***************************************************************************)
\* '{}::{}'.format(id_prefix, entity_id), both str.
make_stored_entity_id(id_prefix, entity_id) == <<"str", id_prefix \o <<"::">> \o entity_id[2]>>

\* domain_event_class.__qualname__.split('.')[0]
id_prefix_from_event_class(cls) ==
    IF cls.kind # "event" THEN Raise("AssertionError")
    ELSE <<"str", <<Split(qualname(cls))[1]>> >>

\* domain_class.__name__
id_prefix_from_entity_class(cls) ==
    IF cls.kind # "entity" THEN Raise("AssertionError")
    ELSE <<"str", name(cls)>>

(***************************************************************************)
(* JSONTranscoder: one transcoder, the domain events of the application    *)
(* and the calls in progress.                                              *)
(*   transcoder  the attributes __init__ sets                              *)
(*   event_cls   the class of each domain event                            *)
(*   heap        the dict at each address: the __dict__ of each domain     *)
(*               event, and the dict each call works on                    *)
(*   th          each calling thread: where it is in serialize or          *)
(*               deserialize, its argument, its locals, its result         *)
(*   stored      the stored events the callers have written to storage     *)
(*   hook        one direct call of an encoder or decoder hook or of an id *)
(*               prefix helper: the function, its argument, its result     *)
(***************************************************************************)
VARIABLES transcoder, event_cls, heap, th, stored, hook

vars == <<transcoder, event_cls, heap, th, stored, hook>>

Threads == DOMAIN th

EventRefs == DOMAIN event_cls

\* Variant of must_encrypt: both flags asked for.
must_encrypt_both(always_encrypt, c) == always_encrypt /\ Classes[c].always_encrypt

\* The policy test of serialize and deserialize.
must_encrypt(always_encrypt, c) == always_encrypt \/ Classes[c].always_encrypt

\* Variant of copy_address: event_attrs = domain_event.__dict__, with no copy.
alias_address(t, e) == e

\* event_attrs = domain_event.__dict__.copy(): where the dict serialize works on
\* lives.
copy_address(t, e) == t

Idle ==
    [pc |-> "idle", op |-> "none", arg |-> None, attrs_at |-> "none",
     event_attrs |-> None, event_id |-> None, stored_entity_id |-> None,
     event_topic |-> None, event_class |-> "none", result |-> None]

StoredEvent(event_id, stored_entity_id, event_topic, event_attrs) ==
    <<"StoredEvent", event_id, stored_entity_id, event_topic, event_attrs>>

Fail(t, exc) == th' = [th EXCEPT ![t].pc = "done", ![t].result = exc]

(***************************************************************************)
(* serialize                                                               *)
(***************************************************************************)
CallSerialize(t, e) ==
    /\ th[t].pc = "idle"
    /\ th' = [th EXCEPT ![t] = [Idle EXCEPT !.pc = "ser_copy", !.op = "serialize",
                                            !.arg = <<"ref", e>>]]
    /\ UNCHANGED <<transcoder, event_cls, heap, stored, hook>>

SerCopy(t) ==
    /\ th[t].pc = "ser_copy"
    /\ LET e  == th[t].arg[2]
           at == copy_address(t, e)
       IN  /\ heap' = [heap EXCEPT ![at] = heap[e]]
           /\ th' = [th EXCEPT ![t].pc = "ser_pop", ![t].attrs_at = at]
    /\ UNCHANGED <<transcoder, event_cls, stored, hook>>

SerPop(t) ==
    /\ th[t].pc = "ser_pop"
    /\ LET at == th[t].attrs_at
       IN  IF "domain_event_id" \in DictKeys(heap[at])
           THEN /\ th' = [th EXCEPT ![t].pc = "ser_ids",
                                    ![t].event_id = DictGet(heap[at], "domain_event_id")]
                /\ heap' = [heap EXCEPT ![at] = DictPop(heap[at], "domain_event_id")]
           ELSE /\ Fail(t, Raise("KeyError"))
                /\ heap' = heap
    /\ UNCHANGED <<transcoder, event_cls, stored, hook>>

SerIds(t) ==
    /\ th[t].pc = "ser_ids"
    /\ LET e      == th[t].arg[2]
           prefix == id_prefix_from_event_class(Classes[event_cls[e]])
       IN  IF IsRaise(prefix) THEN Fail(t, prefix)
           ELSE IF "entity_id" \notin DictKeys(heap[e]) THEN Fail(t, Raise("AttributeError"))
           ELSE th' = [th EXCEPT
                    ![t].pc = "ser_dumps",
                    ![t].stored_entity_id =
                        make_stored_entity_id(prefix[2], DictGet(heap[e], "entity_id")),
                    ![t].event_topic = topic_from_domain_class(event_cls[e])]
    /\ UNCHANGED <<transcoder, event_cls, heap, stored, hook>>

SerDumps(t) ==
    /\ th[t].pc = "ser_dumps"
    /\ th' = [th EXCEPT ![t].pc = "ser_encrypt",
                        ![t].event_attrs = dumps(<<"dict", heap[th[t].attrs_at]>>)]
    /\ UNCHANGED <<transcoder, event_cls, heap, stored, hook>>

\* Variant of SerEncrypt: the plaintext is kept when there is no cipher.
SerEncryptFallback(t) ==
    /\ th[t].pc = "ser_encrypt"
    /\ IF must_encrypt(transcoder.always_encrypt, event_cls[th[t].arg[2]])
          /\ transcoder.cipher # "none"
       THEN th' = [th EXCEPT ![t].pc = "ser_return",
                             ![t].event_attrs = encrypt(th[t].event_attrs)]
       ELSE th' = [th EXCEPT ![t].pc = "ser_return"]
    /\ UNCHANGED <<transcoder, event_cls, heap, stored, hook>>

SerEncrypt(t) ==
    /\ th[t].pc = "ser_encrypt"
    /\ IF must_encrypt(transcoder.always_encrypt, event_cls[th[t].arg[2]])
       THEN IF transcoder.cipher = "none"
            THEN Fail(t, Raise("ValueError: Can't encrypt without a cipher"))
            ELSE th' = [th EXCEPT ![t].pc = "ser_return",
                                  ![t].event_attrs = encrypt(th[t].event_attrs)]
       ELSE th' = [th EXCEPT ![t].pc = "ser_return"]
    /\ UNCHANGED <<transcoder, event_cls, heap, stored, hook>>

SerReturn(t) ==
    /\ th[t].pc = "ser_return"
    /\ th' = [th EXCEPT ![t].pc = "done",
                        ![t].result = StoredEvent(th[t].event_id, th[t].stored_entity_id,
                                                  th[t].event_topic, th[t].event_attrs)]
    /\ UNCHANGED <<transcoder, event_cls, heap, stored, hook>>

(***************************************************************************)
(* deserialize                                                             *)
(***************************************************************************)
\* Records in storage that other writers put there: under the topic of a
\* domain event class, of a class that is no domain event, of an entity class
\* and under a topic that names nothing, each in plaintext and encrypted.
Topics ==
    { topic_from_domain_class("ExampleCreated"),
      topic_from_domain_class("SecretCreated"),
      topic_from_domain_class("Bag"),
      <<"str", <<"mod", "#", "Gone">> >> }

ForeignPayload == dumps(<<"dict", << <<"entity_id", Str("entity-9")>>, <<"a", <<"int", 0>> >> >> >>)

Foreign ==
    { StoredEvent(Str("ev-9"), Str("entity-9"), topic, payload) :
        topic \in Topics, payload \in {ForeignPayload, encrypt(ForeignPayload)} }

Readable == stored \cup Foreign

CallDeserialize(t, s) ==
    /\ th[t].pc = "idle"
    /\ th' = [th EXCEPT ![t] = [Idle EXCEPT !.pc = "des_resolve", !.op = "deserialize",
                                            !.arg = s]]
    /\ UNCHANGED <<transcoder, event_cls, heap, stored, hook>>

DesResolve(t) ==
    /\ th[t].pc = "des_resolve"
    /\ LET cls == resolve_domain_topic(th[t].arg[4])
       IN  IF IsRaise(cls) THEN Fail(t, cls)
           ELSE th' = [th EXCEPT ![t].pc = "des_check", ![t].event_class = cls[2]]
    /\ UNCHANGED <<transcoder, event_cls, heap, stored, hook>>

\* Variant of DesCheck: the class is not tested.
DesCheckAnyClass(t) ==
    /\ th[t].pc = "des_check"
    /\ th' = [th EXCEPT ![t].pc = "des_decrypt", ![t].event_attrs = th[t].arg[5]]
    /\ UNCHANGED <<transcoder, event_cls, heap, stored, hook>>

DesCheck(t) ==
    /\ th[t].pc = "des_check"
    /\ IF Classes[th[t].event_class].kind # "event"
       THEN Fail(t, Raise("ValueError: Event class is not a DomainEvent"))
       ELSE th' = [th EXCEPT ![t].pc = "des_decrypt", ![t].event_attrs = th[t].arg[5]]
    /\ UNCHANGED <<transcoder, event_cls, heap, stored, hook>>

DesDecrypt(t) ==
    /\ th[t].pc = "des_decrypt"
    /\ IF must_encrypt(transcoder.always_encrypt, th[t].event_class)
       THEN IF transcoder.cipher = "none"
            THEN Fail(t, Raise("ValueError: Can't decrypt stored event without a cipher"))
            ELSE LET plain == decrypt(th[t].event_attrs)
                 IN  IF IsRaise(plain) THEN Fail(t, plain)
                     ELSE th' = [th EXCEPT ![t].pc = "des_loads", ![t].event_attrs = plain]
       ELSE th' = [th EXCEPT ![t].pc = "des_loads"]
    /\ UNCHANGED <<transcoder, event_cls, heap, stored, hook>>

DesLoads(t) ==
    /\ th[t].pc = "des_loads"
    /\ LET attrs == loads(th[t].event_attrs)
       IN  IF IsRaise(attrs) THEN Fail(t, attrs)
           ELSE th' = [th EXCEPT ![t].pc = "des_set_id", ![t].event_attrs = attrs]
    /\ UNCHANGED <<transcoder, event_cls, heap, stored, hook>>

DesSetId(t) ==
    /\ th[t].pc = "des_set_id"
    /\ IF th[t].event_attrs[1] # "dict" THEN Fail(t, Raise("TypeError"))
       ELSE th' = [th EXCEPT
                ![t].pc = "des_new",
                ![t].event_attrs =
                    <<"dict", DictSet(th[t].event_attrs[2], "domain_event_id", th[t].arg[2])>>]
    /\ UNCHANGED <<transcoder, event_cls, heap, stored, hook>>

\* object.__new__(event_class) and __dict__.update(event_attrs): event_attrs
\* is a dict here, so the TypeError the code turns into a ValueError does not
\* arise.
DesNew(t) ==
    /\ th[t].pc = "des_new"
    /\ th' = [th EXCEPT ![t].pc = "done",
                        ![t].result = <<"event", th[t].event_class, th[t].event_attrs[2]>>]
    /\ UNCHANGED <<transcoder, event_cls, heap, stored, hook>>

(***************************************************************************)
(* The caller takes the result: a stored event goes to storage.            *)
(***************************************************************************)
Finish(t) ==
    /\ th[t].pc = "done"
    /\ stored' = IF th[t].result[1] = "StoredEvent" THEN stored \cup {th[t].result}
                 ELSE stored
    /\ th' = [th EXCEPT ![t] = Idle]
    /\ heap' = [heap EXCEPT ![t] = <<>>]
    /\ UNCHANGED <<transcoder, event_cls, hook>>

Next ==
    \/ \E t \in Threads, e \in EventRefs : CallSerialize(t, e)
    \/ \E t \in Threads : SerCopy(t)
    \/ \E t \in Threads : SerPop(t)
    \/ \E t \in Threads : SerIds(t)
    \/ \E t \in Threads : SerDumps(t)
    \/ \E t \in Threads : SerEncrypt(t)
    \/ \E t \in Threads : SerReturn(t)
    \/ \E t \in Threads, s \in Readable : CallDeserialize(t, s)
    \/ \E t \in Threads : DesResolve(t)
    \/ \E t \in Threads : DesCheck(t)
    \/ \E t \in Threads : DesDecrypt(t)
    \/ \E t \in Threads : DesLoads(t)
    \/ \E t \in Threads : DesSetId(t)
    \/ \E t \in Threads : DesNew(t)
    \/ \E t \in Threads : Finish(t)

(***************************************************************************)
(* The domain events of a run.                                             *)
(***************************************************************************)
MaxInt == 1

EventIds == [E1 |-> "ev-1", E2 |-> "ev-2"]

\* JSONTranscoder.__init__ with each always_encrypt and with or without a cipher.
Transcoders ==
    [json_encoder_cls : {"ObjectJSONEncoder"}, json_decoder_cls : {"ObjectJSONDecoder"},
     cipher : {"none", "cipher"}, always_encrypt : BOOLEAN,
     stored_event_cls : {"StoredEvent"}]

EventClasses == {c \in ClassNames : Classes[c].kind = "event"}

\* The orders in which an event's attributes were set.
Layouts ==
    { <<"entity_id", "domain_event_id", "a", "b">>,
      <<"b", "a", "domain_event_id", "entity_id">> }

EventDict(e, layout, a, b) ==
    [i \in DOMAIN layout |->
        <<layout[i],
          CASE layout[i] = "entity_id"       -> Str("entity-1")
            [] layout[i] = "domain_event_id" -> Str(EventIds[e])
            [] layout[i] = "a"               -> a
            [] layout[i] = "b"               -> b>>]

Ints == {<<"int", n>> : n \in 0..MaxInt}

DateTimes ==
    { <<"datetime", "2024-01-01", "00:00:00", "000000", "+0000">>,
      <<"datetime", "2024-01-01", "12:30:00", "000001", "">> }

Dates == { <<"date", "2024-01-01">> }

Arrays == { <<"ndarray", 1, "int64", <<"1", "2">> >>, <<"ndarray", 1, "float64", <<>> >> }

\* Values the base encoder represents by itself.
Plain ==
    Ints \cup
    { Str("s"), <<"bool", TRUE>>, None,
      <<"list", << <<"int", 0>>, Str("s") >> >>,
      <<"dict", << <<"x", <<"int", 0>> >>, <<"a", Str("s")>> >> >> }

\* Objects of application classes, with and without attributes.
Objects ==
    { <<"object", "Bag", <<>> >>,
      <<"object", "Strict", <<>> >>,
      <<"object", "Bag", << <<"x", <<"int", 0>> >> >> >>,
      <<"object", "Strict", << <<"n", Str("s")>> >> >> }

\* Every kind of attribute value, alone and nested.
RichValues ==
    Plain \cup DateTimes \cup Dates \cup Arrays \cup Objects \cup
    { <<"list", <<v>> >> : v \in DateTimes \cup Dates \cup Arrays } \cup
    { <<"dict", << <<"x", v>> >> >> : v \in DateTimes \cup Objects }

\* The choices of one event each: the order its attributes were set in and
\* the values of its attributes a and b.
Choices(sets) ==
    {f \in [DOMAIN sets -> UNION Range(sets)] : \A e \in DOMAIN sets : f[e] \in sets[e]}

InitWith(threads, layouts, avalues, bvalues) ==
    LET refs == DOMAIN layouts
    IN  /\ transcoder \in Transcoders
        /\ event_cls \in [refs -> EventClasses]
        /\ \E layout \in Choices(layouts), a \in Choices(avalues), b \in Choices(bvalues) :
              heap = [x \in refs \cup threads |->
                         IF x \in refs THEN EventDict(x, layout[x], a[x], b[x]) ELSE <<>>]
        /\ th = [t \in threads |-> Idle]
        /\ stored = {}
        /\ hook = None

\* Two threads share one transcoder and two domain events.
Init ==
    InitWith({"T1", "T2"},
             [E1 |-> {<<"entity_id", "domain_event_id", "a", "b">>}, E2 |-> Layouts],
             [E1 |-> {<<"int", 0>>}, E2 |-> Ints],
             [E1 |-> {Str("s")}, E2 |-> {Str("s")}])

Spec == Init /\ [][Next]_vars

\* One thread, one domain event, attribute values of every kind.
InitRT == InitWith({"T1"}, [E1 |-> Layouts], [E1 |-> RichValues], [E1 |-> Ints])

SpecRT == InitRT /\ [][Next]_vars

(***************************************************************************)
(* Direct calls of the hooks and of the id prefix helpers, one per run:    *)
(* hook is <<"call", function, argument, result>>.                         *)
(***************************************************************************)
MaxDepth == 2

Pending == <<"pending">>

HookCall(fn, out) ==
    /\ hook[1] = "call" /\ hook[2] = fn /\ hook[4] = Pending
    /\ hook' = <<"call", fn, hook[3], out>>
    /\ UNCHANGED <<transcoder, event_cls, heap, th, stored>>

CallDefault == HookCall("default", default(hook[3]))

CallFromJsonable == HookCall("from_jsonable", from_jsonable(hook[3]))

CallDecodeClass == HookCall("_decode_class", _decode_class(hook[3]))

CallEventPrefix == HookCall("id_prefix_from_event_class", id_prefix_from_event_class(hook[3]))

CallEntityPrefix == HookCall("id_prefix_from_entity_class", id_prefix_from_entity_class(hook[3]))

NextHook ==
    \/ CallDefault
    \/ CallFromJsonable
    \/ CallDecodeClass
    \/ CallEventPrefix
    \/ CallEntityPrefix

\* Decoded mappings: every set of marker keys, with and without another key.
MarkerValue ==
    [ __ndarray__      |-> <<"str", dumps_str(numpy_save(<<"ndarray", 1, "int64", <<"1", "2">> >>))>>,
      __class__        |-> Str("Bag"),
      __module__       |-> Str("mod"),
      ISO8601_datetime |-> <<"str", <<"2024-01-01", "T", "00:00:00", ".", "000000", "+0000">> >>,
      ISO8601_date     |-> <<"str", <<"2024-01-01">> >>,
      x                |-> <<"int", 0>> ]

DictOver(keys, value) ==
    LET ks == SelectSeq(KeyOrder, LAMBDA k : k \in keys)
    IN  <<"dict", [i \in DOMAIN ks |-> <<ks[i], value[ks[i]]>>]>>

MarkerDicts == {DictOver(keys, MarkerValue) : keys \in SUBSET DOMAIN MarkerValue}

\* Mappings that name a class, with up to two more keys of each plain kind.
ClassDicts ==
    { DictOver(keys, [__class__ |-> Str(c), __module__ |-> Str("mod"), n |-> n, x |-> x]) :
        keys \in {{"__class__", "__module__"} \cup more : more \in SUBSET {"n", "x"}},
        c \in {"Bag", "Strict", "Needy"}, n \in Plain, x \in {<<"int", 0>>, Str("s")} }

\* Classes declared at every depth of nesting.
Paths == UNION {[1..n -> {"Example", "Created"}] : n \in 1..MaxDepth}

DeclaredClasses ==
    {Class("mod", path, kind, FALSE, "none") : path \in Paths, kind \in {"event", "entity"}}

HookCalls ==
    ({"default"} \X (Objects \cup DateTimes \cup Dates \cup Arrays
                       \cup {<<"ndarray", 2, "int64", <<"1", "2">> >>}))
    \cup ({"from_jsonable"} \X MarkerDicts)
    \cup ({"_decode_class"} \X ClassDicts)
    \cup ({"id_prefix_from_event_class"} \X {c \in DeclaredClasses : c.kind = "event"})
    \cup ({"id_prefix_from_entity_class"} \X {c \in DeclaredClasses : c.kind = "entity"})

InitHook ==
    /\ transcoder \in {t \in Transcoders : ~t.always_encrypt /\ t.cipher = "none"}
    /\ event_cls = <<>>
    /\ heap = <<>>
    /\ th = <<>>
    /\ stored = {}
    /\ \E c \in HookCalls : hook = <<"call", c[1], c[2], Pending>>

SpecHook == InitHook /\ [][NextHook]_vars

(***************************************************************************)
(* A whole call run alone: what serialize returns for an event of class c  *)
(* whose __dict__ is items, and what deserialize returns for a stored      *)
(* event, under transcoder tr.                                             *)
(***************************************************************************)
serialize(tr, c, items) ==
    IF "domain_event_id" \notin DictKeys(items) THEN Raise("KeyError")
    ELSE IF IsRaise(id_prefix_from_event_class(Classes[c]))
    THEN id_prefix_from_event_class(Classes[c])
    ELSE IF "entity_id" \notin DictKeys(items) THEN Raise("AttributeError")
    ELSE IF must_encrypt(tr.always_encrypt, c) /\ tr.cipher = "none"
    THEN Raise("ValueError: Can't encrypt without a cipher")
    ELSE LET text == dumps(<<"dict", DictPop(items, "domain_event_id")>>)
         IN  StoredEvent(DictGet(items, "domain_event_id"),
                         make_stored_entity_id(id_prefix_from_event_class(Classes[c])[2],
                                               DictGet(items, "entity_id")),
                         topic_from_domain_class(c),
                         IF must_encrypt(tr.always_encrypt, c) THEN encrypt(text) ELSE text)

deserialize(tr, s) ==
    LET cls == resolve_domain_topic(s[4])
    IN  IF IsRaise(cls) THEN cls
        ELSE IF Classes[cls[2]].kind # "event"
        THEN Raise("ValueError: Event class is not a DomainEvent")
        ELSE IF must_encrypt(tr.always_encrypt, cls[2]) /\ tr.cipher = "none"
        THEN Raise("ValueError: Can't decrypt stored event without a cipher")
        ELSE LET text  == IF must_encrypt(tr.always_encrypt, cls[2]) THEN decrypt(s[5])
                          ELSE s[5]
                 attrs == IF IsRaise(text) THEN text ELSE loads(text)
             IN  IF IsRaise(attrs) THEN attrs
                 ELSE IF attrs[1] # "dict" THEN Raise("TypeError")
                 ELSE <<"event", cls[2], DictSet(attrs[2], "domain_event_id", s[2])>>

(***************************************************************************)
(* Equality of Python values: the items of a dict and the attributes of an *)
(* object compare without their order.                                     *)
(***************************************************************************)
RECURSIVE Canon(_)
Canon(v) ==
    CASE v[1] = "list"   -> <<"list", [i \in DOMAIN v[2] |-> Canon(v[2][i])]>>
      [] v[1] = "dict"   ->
            LET items == SortedItems(v[2])
            IN  <<"dict", [i \in DOMAIN items |-> <<items[i][1], Canon(items[i][2])>>]>>
      [] v[1] = "object" ->
            LET items == SortedItems(v[3])
            IN  <<"object", v[2], [i \in DOMAIN items |-> <<items[i][1], Canon(items[i][2])>>]>>
      [] OTHER           -> v

PyEq(v, w) == Canon(v) = Canon(w)

(***************************************************************************)
(* Properties                                                              *)
(***************************************************************************)
Done(t, op) == th[t].pc = "done" /\ th[t].op = op

Returned(t) == Done(t, "serialize") /\ th[t].result[1] = "StoredEvent"

\* The event a stored event was serialized from.
SourceOf(s) == CHOOSE e \in EventRefs : Str(EventIds[e]) = s[2]

FromHere(s) == s \in stored /\ \E e \in EventRefs : Str(EventIds[e]) = s[2]

\* C1: deserialize(serialize(e)) is an event of the class of e that equals e
\* attribute for attribute, domain_event_id included, under every transcoder
\* configuration and for every kind of attribute value.
C1_RoundTrip ==
    \A t \in Threads :
        (Done(t, "deserialize") /\ FromHere(th[t].arg)) =>
            LET e == SourceOf(th[t].arg)
            IN  /\ th[t].result[1] = "event"
                /\ th[t].result[2] = event_cls[e]
                /\ PyEq(<<"dict", th[t].result[3]>>, <<"dict", heap[e]>>)

RECURSIVE HasAttributes(_)
\* Whether v holds an object that has instance attributes.
HasAttributes(v) ==
    CASE v[1] = "list"   -> \E i \in DOMAIN v[2] : HasAttributes(v[2][i])
      [] v[1] = "dict"   -> \E i \in DOMAIN v[2] : HasAttributes(v[2][i][2])
      [] v[1] = "object" -> v[3] # <<>>
      [] OTHER           -> FALSE

\* The round trip of the events none of whose values is an object with
\* instance attributes.
RoundTripWithoutAttributes ==
    \A t \in Threads :
        (Done(t, "deserialize") /\ FromHere(th[t].arg)
            /\ ~HasAttributes(<<"dict", heap[SourceOf(th[t].arg)]>>)) =>
            LET e == SourceOf(th[t].arg)
            IN  /\ th[t].result[1] = "event"
                /\ th[t].result[2] = event_cls[e]
                /\ PyEq(<<"dict", th[t].result[3]>>, <<"dict", heap[e]>>)

\* The attributes serialize encodes: all but domain_event_id, as a set.
AttributeSet(e) == Range(DictPop(heap[e], "domain_event_id"))

Encoded(t) == th[t].op = "serialize" /\ th[t].pc = "ser_encrypt"

\* C2: the encoding of equal attribute sets is the same text whatever the
\* order the attributes were set in, and serialize returns the same
\* event_attrs for an unchanged event each time and for two events of one
\* class with equal attribute sets.
C2_Deterministic ==
    \A t, u \in Threads :
        /\ (Encoded(t) /\ Encoded(u) /\ AttributeSet(th[t].arg[2]) = AttributeSet(th[u].arg[2]))
              => th[t].event_attrs = th[u].event_attrs
        /\ (Returned(t) /\ Returned(u)
              /\ AttributeSet(th[t].arg[2]) = AttributeSet(th[u].arg[2])
              /\ event_cls[th[t].arg[2]] = event_cls[th[u].arg[2]])
              => th[t].result[5] = th[u].result[5]
        /\ Returned(t) =>
              \A s \in stored : s[2] = th[t].result[2] => s[5] = th[t].result[5]

\* Two calls have returned for two events whose attributes were set in
\* different orders and are the same set.
C2_Witness ==
    \E t, u \in Threads :
        /\ Returned(t) /\ Returned(u) /\ th[t].arg[2] # th[u].arg[2]
        /\ heap[th[t].arg[2]][1][1] # heap[th[u].arg[2]][1][1]
        /\ AttributeSet(th[t].arg[2]) = AttributeSet(th[u].arg[2])
        /\ event_cls[th[t].arg[2]] = event_cls[th[u].arg[2]]
        /\ th[t].result[5] = th[u].result[5]

\* Whether the policy asks for the cipher, stated from the configuration and
\* the class.
Required(c) == transcoder.always_encrypt = TRUE \/ Classes[c].always_encrypt = TRUE

PlainEncoding(e) == dumps(<<"dict", DictPop(heap[e], "domain_event_id")>>)

\* C3: serialize returns the cipher's output of the encoding exactly when the
\* transcoder or the event's class has always_encrypt, and the encoding
\* itself otherwise; the two differ; and deserialize decrypts event_attrs
\* exactly when the transcoder or the resolved class has always_encrypt.
C3_EncryptionPolicy ==
    \A t \in Threads :
        /\ Returned(t) =>
              LET e == th[t].arg[2]
              IN  /\ Required(event_cls[e]) => th[t].result[5] = encrypt(PlainEncoding(e))
                  /\ ~Required(event_cls[e]) => th[t].result[5] = PlainEncoding(e)
                  /\ Required(event_cls[e]) => th[t].result[5] # PlainEncoding(e)
        /\ (th[t].op = "deserialize" /\ th[t].pc = "des_loads") =>
              /\ Required(th[t].event_class) => th[t].event_attrs = decrypt(th[t].arg[5])
              /\ ~Required(th[t].event_class) => th[t].event_attrs = th[t].arg[5]

\* An event of a class that has always_encrypt came back from deserialize
\* under a transcoder that does not always encrypt.
C3_Witness ==
    \E t \in Threads :
        /\ Done(t, "deserialize") /\ FromHere(th[t].arg)
        /\ ~transcoder.always_encrypt
        /\ th[t].arg[5][1] = "ciphertext"
        /\ th[t].result[1] = "event"
        /\ Classes[th[t].result[2]].always_encrypt

NoCipherEncrypt == Raise("ValueError: Can't encrypt without a cipher")

NoCipherDecrypt == Raise("ValueError: Can't decrypt stored event without a cipher")

\* The class a topic resolves to is a domain event class.
ResolvesToEvent(topic) ==
    \E c \in EventClasses : topic_from_domain_class(c) = topic

EventClassOf(topic) == CHOOSE c \in EventClasses : topic_from_domain_class(c) = topic

\* C4 as stated: with no cipher, every serialize and every deserialize call
\* for which encryption is required ends in the missing-cipher error.
C4_MissingCipherEveryCall ==
    \A t \in Threads :
        (transcoder.cipher = "none" /\ th[t].pc = "done") =>
            /\ (th[t].op = "serialize" /\ Required(event_cls[th[t].arg[2]]))
                  => th[t].result = NoCipherEncrypt
            /\ (th[t].op = "deserialize"
                  /\ (transcoder.always_encrypt
                        \/ (ResolvesToEvent(th[t].arg[4])
                              /\ Required(EventClassOf(th[t].arg[4])))))
                  => th[t].result = NoCipherDecrypt

\* C4 amended: with no cipher, every serialize call for which encryption is
\* required, and every deserialize call whose topic resolves to a domain
\* event class for which it is required, ends in the missing-cipher error;
\* two calls with the same argument end the same way.
C4_MissingCipher ==
    \A t \in Threads :
        (transcoder.cipher = "none" /\ th[t].pc = "done") =>
            /\ (th[t].op = "serialize" /\ Required(event_cls[th[t].arg[2]]))
                  => th[t].result = NoCipherEncrypt
            /\ (th[t].op = "deserialize" /\ ResolvesToEvent(th[t].arg[4])
                  /\ Required(EventClassOf(th[t].arg[4])))
                  => th[t].result = NoCipherDecrypt
            /\ \A u \in Threads :
                  (th[u].pc = "done" /\ th[u].op = th[t].op /\ th[u].arg = th[t].arg)
                      => th[u].result = th[t].result

\* Without a cipher, a serialize call and a deserialize call have both ended
\* in the missing-cipher error.
C4_Witness ==
    \E t, u \in Threads :
        /\ transcoder.cipher = "none"
        /\ Done(t, "serialize") /\ th[t].result = NoCipherEncrypt
        /\ Done(u, "deserialize") /\ th[u].result = NoCipherDecrypt

\* C5: deserialize of a record whose topic names nothing, or a class that is
\* no domain event, ends in the resolver's error or the not-a-DomainEvent
\* error whatever the payload and the cipher configuration, and never gets
\* to decrypt or decode.
C5_UnknownTopic ==
    \A t \in Threads :
        (th[t].op = "deserialize" /\ ~ResolvesToEvent(th[t].arg[4])) =>
            /\ th[t].pc \in {"des_resolve", "des_check", "done"}
            /\ th[t].pc = "done" =>
                  th[t].result \in
                      { Raise("TopicResolutionError"),
                        Raise("ValueError: Event class is not a DomainEvent") }

\* Under a transcoder that always encrypts and has no cipher, deserialize of
\* an encrypted record under the topic of a class that is no domain event has
\* ended in the not-a-DomainEvent error.
C5_Witness ==
    \E t \in Threads :
        /\ Done(t, "deserialize")
        /\ th[t].arg[4] = topic_from_domain_class("Bag")
        /\ th[t].arg[5][1] = "ciphertext"
        /\ transcoder.always_encrypt /\ transcoder.cipher = "none"
        /\ th[t].result = Raise("ValueError: Event class is not a DomainEvent")

\* The result of the call of thread t, had it run alone.
Alone(t) ==
    IF th[t].op = "serialize"
    THEN serialize(transcoder, event_cls[th[t].arg[2]], heap[th[t].arg[2]])
    ELSE deserialize(transcoder, th[t].arg)

\* C7: no step of a serialize or deserialize call changes the transcoder's
\* attributes or the __dict__ of a domain event, and every call returns what
\* it returns when run alone on its argument.
C7_NonInterference ==
    /\ [][/\ transcoder' = transcoder
          /\ event_cls' = event_cls
          /\ \A e \in EventRefs : heap'[e] = heap[e]]_vars
    /\ [](\A t \in Threads : th[t].pc = "done" => th[t].result = Alone(t))

\* Two serialize calls on the same event are in progress, one past the
\* removal of domain_event_id from its dict and one before it.
C7_Witness ==
    \E t, u \in Threads :
        /\ t # u
        /\ th[t].op = "serialize" /\ th[u].op = "serialize"
        /\ th[t].arg = th[u].arg
        /\ th[t].pc = "ser_ids" /\ th[u].pc = "ser_pop"
        /\ "domain_event_id" \in DictKeys(heap[th[t].arg[2]])

HookDone(fn) == hook[1] = "call" /\ hook[2] = fn /\ hook[4] # Pending

\* C6: the id prefix of an event class and of an entity class is the
\* outermost name of its qualified name.
C6_PrefixIsOutermostName ==
    (HookDone("id_prefix_from_event_class") \/ HookDone("id_prefix_from_entity_class"))
        => hook[4] = Str(hook[3].qualname[1])

\* C8: the fallback of the encode hook returns a mapping with __class__,
\* __module__ and every instance attribute of the object.
C8_FallbackKeepsAttributes ==
    (HookDone("default") /\ hook[3][1] = "object") =>
        /\ hook[4][1] = "dict"
        /\ DictGet(hook[4][2], "__class__") = QualnameStr(hook[3][2])
        /\ DictGet(hook[4][2], "__module__") = ModuleStr(hook[3][2])
        /\ \A i \in DOMAIN hook[3][3] :
              /\ hook[3][3][i][1] \in DictKeys(hook[4][2])
              /\ DictGet(hook[4][2], hook[3][3][i][1]) = hook[3][3][i][2]

\* C9: when the class does not take the remaining keys as arguments and can
\* be built with none, _decode_class returns a bare instance with every
\* remaining key assigned, whatever the kind of the values.
C9_SecondTierNeverRaises ==
    HookDone("_decode_class") =>
        LET rest == DictPop(DictPop(hook[3][2], "__class__"), "__module__")
            c    == resolve_class(DictGet(hook[3][2], "__module__"),
                                  DictGet(hook[3][2], "__class__"))[2]
        IN  (IsRaise(construct(c, rest)) /\ ~IsRaise(construct(c, <<>>))) =>
                /\ hook[4][1] = "object"
                /\ hook[4][2] = c
                /\ DictKeys(hook[4][3]) = DictKeys(rest)

\* C10: from_jsonable decides by the first of the markers __ndarray__,
\* __class__ with __module__, ISO8601_datetime, ISO8601_date that the mapping
\* holds, whatever other markers it holds; __class__ or __module__ alone is
\* no marker; a mapping with no marker is returned as it is.
C10_DecodeHookPriority ==
    HookDone("from_jsonable") =>
        LET d    == hook[3]
            keys == DictKeys(d[2])
        IN  IF "__ndarray__" \in keys
            THEN hook[4] = <<"ndarray", 1, "int64", <<"1", "2">> >>
            ELSE IF {"__class__", "__module__"} \subseteq keys
            THEN hook[4] = <<"object", "Bag", DictPop(DictPop(d[2], "__class__"), "__module__")>>
            ELSE IF "ISO8601_datetime" \in keys
            THEN hook[4] = <<"datetime", "2024-01-01", "00:00:00", "000000", "+0000">>
            ELSE IF "ISO8601_date" \in keys
            THEN hook[4] = <<"date", "2024-01-01">>
            ELSE hook[4] = d

\* A mapping with __class__ but no __module__, and with both date markers,
\* decoded to a datetime.
C10_Witness ==
    /\ HookDone("from_jsonable")
    /\ DictKeys(hook[3][2]) = {"__class__", "ISO8601_datetime", "ISO8601_date", "x"}
    /\ hook[4][1] = "datetime"
====
